---- MODULE Spec2Model ----
\* Model of app.py: a Flask form that imports the hosts of a CSV file into
\* Zabbix through the pyzabbix client.  The request handlers run one at a
\* time; the loop of import_hosts takes one step per row.  The Zabbix server
\* is the environment: every remote call either answers or raises.
EXTENDS Integers, Sequences, FiniteSets, TLC

\* ---------------------------------------------------------------- bounds
MaxRows == 2

\* ------------------------------------------------------------- constants
\* Python's None, for the values that are handles or identifiers.
None == 0
ZABBIX_USER == "Admin"
DefaultGroupName == "Imported Hosts"
NoFile == "<absent>"

Outcomes == {"ok", "raise"}

\* ------------------------------------------------------- request inputs
RowValues == {[nome |-> "host-a", ip |-> "10.0.0.1"],
              [nome |-> "host-b", ip |-> "10.0.0.2"],
              [nome |-> "host-b", ip |-> "10.0.0.3"]}

RECURSIVE SeqsUpTo(_, _)
SeqsUpTo(S, n) ==
    IF n = 0 THEN {<<>>}
    ELSE LET shorter == SeqsUpTo(S, n - 1)
         IN shorter \cup {Append(s, x) : s \in {t \in shorter : Len(t) = n - 1}, x \in S}

\* The data frame pandas reads: its columns and its rows.
Frames ==
    {[columns |-> {"nome", "ip"}, rows |-> r] : r \in SeqsUpTo(RowValues, MaxRows)}
        \cup {[columns |-> {"nome"}, rows |-> <<>>]}

FileNames == {NoFile, "", "hosts.txt", "hosts.csv"}

TemplateLists == {<<>>, <<"10001", "10002">>}

\* request.form: the keys the browser sent.
Forms ==
    { [snmp_version |-> "2", snmp_community |-> "private"],
      [snmp_version |-> "3", snmp_securityname |-> "monitor",
       snmp_securitylevel |-> "1", snmp_authprotocol |-> "1",
       snmp_authpassphrase |-> "apass", snmp_privprotocol |-> "1",
       snmp_privpassphrase |-> "ppass", snmp_contextname |-> "ctx"],
      [snmp_version |-> "3", snmp_securitylevel |-> "noauth"],
      [snmp_version |-> "1"] }

\* ---------------------------------------------------------------- state
VARIABLES
    zabbix,        \* the global handle, None before the first connection
    handles,       \* number of ZabbixAPI objects constructed so far
    loggedIn,      \* handles whose login the server accepted
    hosts,         \* server: names of the hosts that exist
    groups,        \* server: host groups, in the order hostgroup.get lists them
    pc,            \* "idle", "rows" in the loop of import_hosts, "done" once answered
    rows,          \* import_hosts: rows of the data frame
    template_ids,  \* import_hosts: templates[] of the form
    form_data,     \* import_hosts: request.form
    zapi,          \* import_hosts: the connection it obtained
    idx,           \* import_hosts: next row of the loop
    results,       \* import_hosts: the outcome list
    calls,         \* remote calls issued by the current request, in order
    conn,          \* what get_zabbix_connection returned in the current request
    resolved,      \* what get_default_hostgroup returned in the last row step
    interface,     \* the interface dict built in the last row step
    flash,         \* message flashed by the current request
    response,      \* how the current request was answered
    request        \* the current request: its endpoint and its templates[]

vars == <<zabbix, handles, loggedIn, hosts, groups, pc, rows,
          template_ids, form_data, zapi, idx, results, calls, conn, resolved,
          interface, flash, response, request>>

\* Sentinels for "not called" and "raised" where a value is recorded.
NotCalled == -1
Raised == -2
NoInterface == [type |-> 0]
NoRequest == [endpoint |-> "", templates |-> <<>>]

\* A remote call as the log keeps it.
Call(op, row, ok, arg, ret) ==
    [op |-> op, row |-> row, ok |-> ok, arg |-> arg, ret |-> ret]

\* The server answers a call that needs a session only on a logged-in one.
Answers(z, li, outcome) == outcome = "ok" /\ z \in li

\* ------------------------------------------------ get_zabbix_connection
\* Variant: the except clause drops the global handle, so the next call
\* connects again.
get_zabbix_connection_reset(z, h, li, o) ==
    IF z = None
    THEN LET new == h + 1
             login == Call("user.login", 0, o.login = "ok", ZABBIX_USER, <<>>)
             version == Call("apiinfo.version", 0, o.version = "ok", "", <<>>)
         IN IF o.login # "ok"
            THEN [ret |-> None, zabbix |-> None, handles |-> new,
                  loggedIn |-> li, calls |-> <<login>>]
            ELSE IF o.version # "ok"
            THEN [ret |-> None, zabbix |-> None, handles |-> new,
                  loggedIn |-> li \cup {new}, calls |-> <<login, version>>]
            ELSE [ret |-> new, zabbix |-> new, handles |-> new,
                  loggedIn |-> li \cup {new}, calls |-> <<login, version>>]
    ELSE [ret |-> z, zabbix |-> z, handles |-> h, loggedIn |-> li, calls |-> <<>>]

\* lines 25-36.  z is the global handle, h the number of handles constructed,
\* li the sessions logged in; o says whether login and api_version raise.
get_zabbix_connection(z, h, li, o) ==
    IF z = None
    THEN LET new == h + 1
             login == Call("user.login", 0, o.login = "ok", ZABBIX_USER, <<>>)
             version == Call("apiinfo.version", 0, o.version = "ok", "", <<>>)
         IN IF o.login # "ok"
            THEN [ret |-> None, zabbix |-> new, handles |-> new,
                  loggedIn |-> li, calls |-> <<login>>]
            ELSE IF o.version # "ok"
            THEN [ret |-> None, zabbix |-> new, handles |-> new,
                  loggedIn |-> li \cup {new}, calls |-> <<login, version>>]
            ELSE [ret |-> new, zabbix |-> new, handles |-> new,
                  loggedIn |-> li \cup {new}, calls |-> <<login, version>>]
    ELSE [ret |-> z, zabbix |-> z, handles |-> h, loggedIn |-> li, calls |-> <<>>]

ConnOracles == [login : Outcomes, version : Outcomes]

\* ------------------------------------------------------ test_connection
test_connection ==
    /\ pc = "idle"
    /\ \E o \in ConnOracles, v \in Outcomes :
          LET c == get_zabbix_connection(zabbix, handles, loggedIn, o)
          IN /\ zabbix' = c.zabbix
             /\ handles' = c.handles
             /\ loggedIn' = c.loggedIn
             /\ conn' = c.ret
             /\ IF c.ret # None
                THEN /\ calls' = Append(c.calls,
                                        Call("apiinfo.version", 0, v = "ok", "", <<>>))
                     /\ response' = IF v = "ok" THEN "json 200" ELSE "json 500"
                ELSE /\ calls' = c.calls
                     /\ response' = "json 500"
    /\ pc' = "done"
    /\ request' = [endpoint |-> "/test_connection", templates |-> <<>>]
    /\ UNCHANGED <<hosts, groups, rows, template_ids, form_data, zapi, idx,
                   results, resolved, interface, flash>>

\* -------------------------------------------------------- get_templates
get_templates ==
    /\ pc = "idle"
    /\ \E o \in ConnOracles, t \in Outcomes :
          LET c == get_zabbix_connection(zabbix, handles, loggedIn, o)
              ok == Answers(c.ret, c.loggedIn, t)
          IN /\ zabbix' = c.zabbix
             /\ handles' = c.handles
             /\ loggedIn' = c.loggedIn
             /\ conn' = c.ret
             /\ IF c.ret # None
                THEN /\ calls' = Append(c.calls, Call("template.get", 0, ok, "", <<>>))
                     /\ response' = IF ok THEN "json 200" ELSE "json 500"
                ELSE /\ calls' = c.calls
                     /\ response' = "json 500"
    /\ pc' = "done"
    /\ request' = [endpoint |-> "/get_templates", templates |-> <<>>]
    /\ UNCHANGED <<hosts, groups, rows, template_ids, form_data, zapi, idx,
                   results, resolved, interface, flash>>

\* ------------------------------------------------ get_default_hostgroup
NamedGroups(gs, name) == SelectSeq(gs, LAMBDA g : g.name = name)

RECURSIVE MaxGroupId(_)
MaxGroupId(gs) ==
    IF gs = <<>> THEN 0
    ELSE LET rest == MaxGroupId(Tail(gs))
         IN IF Head(gs).groupid > rest THEN Head(gs).groupid ELSE rest

\* Variant: the lookup's answer is not used, the group is always created.
groups_found_never(named) == FALSE

\* line 211: a list is true when it is not empty
groups_found(named) == named # <<>>

\* The server creates a group on a session, under a name no group has.
GroupCreateAnswers(z, srv, name, outcome) ==
    /\ Answers(z, srv.loggedIn, outcome)
    /\ NamedGroups(srv.groups, name) = <<>>

\* srv is the server as the call finds it; o says which calls raise.
\* The result carries the returned groupid (or raised), the groups the server
\* holds afterwards and the calls issued.
get_default_hostgroup(z, srv, i, o) ==
    LET named == NamedGroups(srv.groups, DefaultGroupName)
        getOk == Answers(z, srv.loggedIn, o.gget)
        c_get == Call("hostgroup.get", i, getOk, DefaultGroupName,
                      IF getOk THEN named ELSE <<>>)
        createOk == GroupCreateAnswers(z, srv, DefaultGroupName, o.gcreate)
        newid == MaxGroupId(srv.groups) + 1
        c_create == Call("hostgroup.create", i, createOk, DefaultGroupName,
                         IF createOk THEN <<newid>> ELSE <<>>)
        listOk == Answers(z, srv.loggedIn, o.glist)
        c_list == Call("hostgroup.get", i, listOk, "",
                       IF listOk THEN srv.groups ELSE <<>>)
        \* lines 217-220: the bare except
        fallback(cs) ==
            IF listOk
            THEN [raised |-> FALSE,
                  ret |-> IF srv.groups # <<>> THEN srv.groups[1].groupid ELSE None,
                  groups |-> srv.groups, calls |-> Append(cs, c_list)]
            ELSE [raised |-> TRUE, ret |-> None,
                  groups |-> srv.groups, calls |-> Append(cs, c_list)]
    IN IF ~getOk THEN fallback(<<c_get>>)
       ELSE IF groups_found(named)
       THEN [raised |-> FALSE, ret |-> named[1].groupid,
             groups |-> srv.groups, calls |-> <<c_get>>]
       ELSE IF createOk
       THEN [raised |-> FALSE, ret |-> newid,
             groups |-> Append(srv.groups,
                               [groupid |-> newid, name |-> DefaultGroupName]),
             calls |-> <<c_get, c_create>>]
       ELSE fallback(<<c_get, c_create>>)

\* ------------------------------------------------ create_host_in_zabbix
form_get(form, key, default) == IF key \in DOMAIN form THEN form[key] ELSE default

\* Python's int() on the strings a form can carry.
IntStrings == {"0", "1", "2", "3"}
int(s) == CASE s = "0" -> 0 [] s = "1" -> 1 [] s = "2" -> 2 [] s = "3" -> 3

\* Variant: the community is set whatever the version.
snmp_details_community(snmp_version, form) ==
    LET details == [version |-> snmp_version, bulk |-> 0,
                    community |-> form_get(form, "snmp_community", "public")]
    IN IF snmp_version = "3"
       THEN details @@
            [securityname |-> form_get(form, "snmp_securityname", ""),
             securitylevel |-> IF "snmp_securitylevel" \in DOMAIN form
                               THEN int(form["snmp_securitylevel"]) ELSE 0,
             authprotocol |-> form_get(form, "snmp_authprotocol", "0"),
             authpassphrase |-> form_get(form, "snmp_authpassphrase", ""),
             privprotocol |-> form_get(form, "snmp_privprotocol", "0"),
             privpassphrase |-> form_get(form, "snmp_privpassphrase", ""),
             contextname |-> form_get(form, "snmp_contextname", "")]
       ELSE details

\* lines 169-178; only called when int() accepts the security level
snmp_details(snmp_version, form) ==
    LET details == [version |-> snmp_version, bulk |-> 0]
    IN IF snmp_version = "2"
       THEN details @@ [community |-> form_get(form, "snmp_community", "public")]
       ELSE IF snmp_version = "3"
       THEN details @@
            [securityname |-> form_get(form, "snmp_securityname", ""),
             securitylevel |-> IF "snmp_securitylevel" \in DOMAIN form
                               THEN int(form["snmp_securitylevel"]) ELSE 0,
             authprotocol |-> form_get(form, "snmp_authprotocol", "0"),
             authpassphrase |-> form_get(form, "snmp_authpassphrase", ""),
             privprotocol |-> form_get(form, "snmp_privprotocol", "0"),
             privpassphrase |-> form_get(form, "snmp_privpassphrase", ""),
             contextname |-> form_get(form, "snmp_contextname", "")]
       ELSE details

\* lines 155-166
snmp_interface(ip, snmp_version, form) ==
    [type |-> 2, main |-> 1, useip |-> 1, ip |-> ip, dns |-> "", port |-> "161",
     details |-> snmp_details(snmp_version, form)]

error_result(hostname, ip, message) ==
    [nome |-> hostname, ip |-> ip, status |-> "error", mensagem |-> message]

success_result(hostname, ip, hostid) ==
    [nome |-> hostname, ip |-> ip, status |-> "success",
     mensagem |-> <<"Host criado com sucesso (ID: ", ToString(hostid), ")">>]

\* Which calls of one row raise.  A call the row cannot reach after an earlier
\* raise is listed as raising, so that each course of a row is listed once.
RowOracles ==
    {o \in [hget : Outcomes, gget : Outcomes, gcreate : Outcomes,
            glist : Outcomes, hcreate : Outcomes] :
        /\ o.hget = "raise" =>
              o.gget = "raise" /\ o.glist = "raise" /\ o.hcreate = "raise"
        /\ o.gget = "raise" => o.gcreate = "raise"
        /\ o.gcreate = "ok" => o.glist = "raise"}

\* The server accepts host.create on a session, for a new name, in a group
\* that exists.
HostCreateAnswers(z, srv, gs, hostname, groupid, outcome) ==
    /\ Answers(z, srv.loggedIn, outcome)
    /\ hostname \notin srv.hosts
    /\ \E k \in 1..Len(gs) : gs[k].groupid = groupid

\* Variant: the test for an existing host never fires.
host_exists_never(existing_host) == FALSE

\* line 146: a list is true when it is not empty
host_exists(existing_host) == existing_host # <<>>

\* Variant: no except clause, the exception leaves the function.
unhandled(hostname, ip, message, hs, gs, cs, groupid, iface) ==
    [raised |-> TRUE, result |-> error_result(hostname, ip, message),
     hosts |-> hs, groups |-> gs, calls |-> cs, resolved |-> groupid,
     interface |-> iface]

\* lines 199-205: the except clause turns the exception into the row's outcome
handled(hostname, ip, message, hs, gs, cs, groupid, iface) ==
    [raised |-> FALSE, result |-> error_result(hostname, ip, message),
     hosts |-> hs, groups |-> gs, calls |-> cs, resolved |-> groupid,
     interface |-> iface]

\* i is the row's position in the file; the result carries the outcome dict
\* (or raised, should an exception leave the function), the server's hosts and
\* groups afterwards, the calls issued, what the group resolver returned and
\* the interface dict built.
create_host_in_zabbix(z, hostname, ip, tids, snmp_version, form, srv, i, o) ==
    LET getOk == Answers(z, srv.loggedIn, o.hget)
        existing_host == IF getOk /\ hostname \in srv.hosts
                         THEN <<[host |-> hostname]>> ELSE <<>>
        c_get == Call("host.get", i, getOk, hostname, existing_host)
        badLevel == /\ snmp_version = "3"
                    /\ "snmp_securitylevel" \in DOMAIN form
                    /\ form["snmp_securitylevel"] \notin IntStrings
        iface == snmp_interface(ip, snmp_version, form)
        g == get_default_hostgroup(z, srv, i, o)
        create_params == [host |-> hostname, name |-> hostname,
                          interfaces |-> <<iface>>,
                          groups |-> <<[groupid |-> g.ret]>>,
                          templates |-> [k \in 1..Len(tids) |-> [templateid |-> tids[k]]],
                          status |-> 0]
        createOk == HostCreateAnswers(z, srv, g.groups, hostname, g.ret, o.hcreate)
        hostid == 10000 + Cardinality(srv.hosts) + 1
        c_create == Call("host.create", i, createOk, create_params,
                         IF createOk THEN <<hostid>> ELSE <<>>)
    IN IF ~getOk
       THEN handled(hostname, ip, <<"host.get failed">>, srv.hosts, srv.groups,
                    <<c_get>>, NotCalled, NoInterface)
       ELSE IF host_exists(existing_host)
       THEN [raised |-> FALSE,
             result |-> error_result(hostname, ip, <<"Host ", hostname, " ja existe">>),
             hosts |-> srv.hosts, groups |-> srv.groups, calls |-> <<c_get>>,
             resolved |-> NotCalled, interface |-> NoInterface]
       ELSE IF badLevel
       THEN handled(hostname, ip, <<"invalid literal for int()">>, srv.hosts,
                    srv.groups, <<c_get>>, NotCalled, NoInterface)
       ELSE IF g.raised
       THEN handled(hostname, ip, <<"hostgroup.get failed">>, srv.hosts, g.groups,
                    <<c_get>> \o g.calls, Raised, iface)
       ELSE IF ~createOk
       THEN handled(hostname, ip, <<"host.create failed">>, srv.hosts, g.groups,
                    (<<c_get>> \o g.calls) \o <<c_create>>, g.ret, iface)
       ELSE [raised |-> FALSE, result |-> success_result(hostname, ip, hostid),
             hosts |-> srv.hosts \cup {hostname}, groups |-> g.groups,
             calls |-> (<<c_get>> \o g.calls) \o <<c_create>>,
             resolved |-> g.ret, interface |-> iface]

\* --------------------------------------------------------- import_hosts
FileErrors == {"Nenhum arquivo enviado", "Nenhum arquivo selecionado",
               "Por favor, envie um arquivo CSV"}
ColumnsError == "O CSV deve conter as colunas: nome, ip"
TemplatesError == "Selecione pelo menos um template"

\* Variant: the templates are not checked before the connection.
input_error_no_templates(filename, df, tids) ==
    IF filename = NoFile THEN "Nenhum arquivo enviado"
    ELSE IF filename = "" THEN "Nenhum arquivo selecionado"
    ELSE IF filename # "hosts.csv" THEN "Por favor, envie um arquivo CSV"
    ELSE IF ~({"nome", "ip"} \subseteq df.columns) THEN ColumnsError
    ELSE ""

\* lines 68-103: the checks made before the connection; "" when all pass
input_error(filename, df, tids) ==
    IF filename = NoFile THEN "Nenhum arquivo enviado"
    ELSE IF filename = "" THEN "Nenhum arquivo selecionado"
    ELSE IF filename # "hosts.csv" THEN "Por favor, envie um arquivo CSV"
    ELSE IF ~({"nome", "ip"} \subseteq df.columns) THEN ColumnsError
    ELSE IF tids = <<>> THEN TemplatesError
    ELSE ""

\* lines 66-113: the checks of the upload and of the form, then the
\* connection.  A local is assigned once the handler reaches its line.
import_hosts ==
    /\ pc = "idle"
    /\ \E filename \in FileNames, df \in Frames, tids \in TemplateLists,
          form \in Forms, o \in ConnOracles :
          LET c == get_zabbix_connection(zabbix, handles, loggedIn, o)
              rejected == input_error(filename, df, tids)
          IN /\ request' = [endpoint |-> "/import", templates |-> tids]
             /\ rows' = IF rejected \in FileErrors THEN rows ELSE df.rows
             /\ template_ids' = IF rejected \in FileErrors \cup {ColumnsError}
                                THEN template_ids ELSE tids
             /\ form_data' = IF rejected \in FileErrors \cup {ColumnsError}
                             THEN form_data ELSE form
             /\ IF rejected # ""
                THEN /\ flash' = rejected
                     /\ response' = "redirect"
                     /\ pc' = "done"
                     /\ UNCHANGED <<zabbix, handles, loggedIn, conn, calls, zapi>>
                ELSE /\ zabbix' = c.zabbix
                     /\ handles' = c.handles
                     /\ loggedIn' = c.loggedIn
                     /\ conn' = c.ret
                     /\ calls' = c.calls
                     /\ zapi' = c.ret
                     /\ IF c.ret = None
                        THEN /\ flash' = "Erro ao conectar ao Zabbix"
                             /\ response' = "redirect"
                             /\ pc' = "done"
                        ELSE /\ flash' = ""
                             /\ response' = ""
                             /\ pc' = "rows"
    /\ UNCHANGED <<hosts, groups, idx, results, resolved, interface>>

\* Variant: the outcome is put at the head of the list.
prepend_result(rs, result) == <<result>> \o rs

\* line 123
append_result(rs, result) == Append(rs, result)

\* Variant: a row that ended in an error is tried again.
import_row_retry ==
    /\ pc = "rows"
    /\ idx <= Len(rows)
    /\ \E o \in RowOracles :
          LET srv == [loggedIn |-> loggedIn, hosts |-> hosts, groups |-> groups]
              r == create_host_in_zabbix(zapi, rows[idx].nome, rows[idx].ip,
                                         template_ids, form_data.snmp_version,
                                         form_data, srv, idx, o)
          IN /\ hosts' = r.hosts
             /\ groups' = r.groups
             /\ calls' = calls \o r.calls
             /\ resolved' = r.resolved
             /\ interface' = r.interface
             /\ IF r.result.status = "error"
                THEN UNCHANGED <<results, idx, flash, response, pc>>
                ELSE /\ results' = append_result(results, r.result)
                     /\ idx' = idx + 1
                     /\ UNCHANGED <<flash, response, pc>>
    /\ UNCHANGED <<zabbix, handles, loggedIn, rows, template_ids, form_data,
                   zapi, conn, request>>

\* lines 114-123: one turn of the loop; lines 137-139 should the row raise
import_row ==
    /\ pc = "rows"
    /\ idx <= Len(rows)
    /\ \E o \in RowOracles :
          LET srv == [loggedIn |-> loggedIn, hosts |-> hosts, groups |-> groups]
              r == create_host_in_zabbix(zapi, rows[idx].nome, rows[idx].ip,
                                         template_ids, form_data.snmp_version,
                                         form_data, srv, idx, o)
          IN /\ hosts' = r.hosts
             /\ groups' = r.groups
             /\ calls' = calls \o r.calls
             /\ resolved' = r.resolved
             /\ interface' = r.interface
             /\ IF r.raised
                THEN /\ flash' = "Erro ao processar importacao"
                     /\ response' = "redirect"
                     /\ pc' = "done"
                     /\ UNCHANGED <<results, idx>>
                ELSE /\ results' = append_result(results, r.result)
                     /\ idx' = idx + 1
                     /\ UNCHANGED <<flash, response, pc>>
    /\ UNCHANGED <<zabbix, handles, loggedIn, rows, template_ids, form_data,
                   zapi, conn, request>>

success_count(rs) == Cardinality({k \in 1..Len(rs) : rs[k].status = "success"})
error_count(rs) == Len(rs) - success_count(rs)

\* lines 125-135: the loop is over, the summary is rendered
import_done ==
    /\ pc = "rows"
    /\ idx > Len(rows)
    /\ pc' = "done"
    /\ response' = "results"
    /\ UNCHANGED <<zabbix, handles, loggedIn, hosts, groups, rows, template_ids,
                   form_data, zapi, idx, results, calls, conn, resolved,
                   interface, flash, request>>

\* The handler has returned: its locals are gone, the global handle and the
\* server stay.
request_end ==
    /\ pc = "done"
    /\ pc' = "idle"
    /\ rows' = <<>>
    /\ template_ids' = <<>>
    /\ form_data' = [snmp_version |-> "1"]
    /\ zapi' = None
    /\ idx' = 1
    /\ results' = <<>>
    /\ calls' = <<>>
    /\ conn' = NotCalled
    /\ resolved' = NotCalled
    /\ interface' = NoInterface
    /\ flash' = ""
    /\ response' = ""
    /\ request' = NoRequest
    /\ UNCHANGED <<zabbix, handles, loggedIn, hosts, groups>>

Init ==
    /\ zabbix = None
    /\ handles = 0
    /\ loggedIn = {}
    /\ hosts = {"host-a"}
    /\ groups \in {<<>>,
                   <<[groupid |-> 1, name |-> "Discovered hosts"]>>,
                   <<[groupid |-> 1, name |-> "Discovered hosts"],
                     [groupid |-> 2, name |-> DefaultGroupName]>>}
    /\ pc = "idle"
    /\ rows = <<>>
    /\ template_ids = <<>>
    /\ form_data = [snmp_version |-> "1"]
    /\ zapi = None
    /\ idx = 1
    /\ results = <<>>
    /\ calls = <<>>
    /\ conn = NotCalled
    /\ resolved = NotCalled
    /\ interface = NoInterface
    /\ flash = ""
    /\ response = ""
    /\ request = NoRequest

Next ==
    \/ test_connection
    \/ get_templates
    \/ import_hosts
    \/ import_row
    \/ import_done
    \/ request_end

Spec == Init /\ [][Next]_vars

\* ================================================================ claims
Started == request.endpoint = "/import" /\ zapi # None
CallsOf(i) == {k \in 1..Len(calls) : calls[k].row = i}
CallsOp(i, op) == {k \in CallsOf(i) : calls[k].op = op}
ImportedGroups == NamedGroups(groups, DefaultGroupName)
CountOp(cs, op) == Cardinality({k \in 1..Len(cs) : cs[k].op = op})
V3Fields == {"securityname", "securitylevel", "authprotocol", "authpassphrase",
             "privprotocol", "privpassphrase", "contextname"}

\* C1: a batch that passed the checks and got a connection holds one outcome
\* per row processed so far, the i-th outcome carrying the name and address of
\* the i-th row, and is answered with exactly as many outcomes as rows.
C1_OutcomesInFileOrder ==
    Started =>
        /\ Len(results) = idx - 1
        /\ Len(results) <= Len(rows)
        /\ \A i \in 1..Len(results) :
              results[i].nome = rows[i].nome /\ results[i].ip = rows[i].ip
        /\ pc = "done" => response = "results" /\ Len(results) = Len(rows)

C1_Witness ==
    /\ Started /\ pc = "done" /\ response = "results"
    /\ Len(rows) = 2 /\ Len(results) = 2
    /\ rows[1].nome # rows[2].nome
    /\ results[1].status = "error" /\ results[2].status = "success"
    /\ success_count(results) = 1 /\ error_count(results) = 1

\* C2: a row whose name host.get returned as existing ends in an error and
\* that lookup is the only remote call issued for the row.
C2_ExistingHostNoCreate ==
    \A k \in 1..Len(calls) :
        (calls[k].op = "host.get" /\ calls[k].ok /\ calls[k].ret # <<>>) =>
            /\ calls[k].row <= Len(results)
            /\ results[calls[k].row].status = "error"
            /\ CallsOf(calls[k].row) = {k}

C2_Witness ==
    /\ pc = "done" /\ response = "results"
    /\ \E k \in 1..Len(calls) :
          /\ calls[k].op = "host.get" /\ calls[k].ok /\ calls[k].ret # <<>>
          /\ \E j \in 1..Len(calls) : calls[j].op = "host.create" /\ calls[j].ok

\* C3 as claimed: a failure of any remote call of a row gives that row an
\* error outcome, and the batch goes on.
C3_AnyFailureIsRowError ==
    /\ \A k \in 1..Len(calls) :
          (calls[k].row >= 1 /\ ~calls[k].ok) =>
              /\ calls[k].row <= Len(results)
              /\ results[calls[k].row].status = "error"
    /\ Started => flash = ""

\* C3 as amended: a failure of the host lookup, of the fallback listing of
\* the groups or of the host creation gives the row an error outcome; a failed
\* group lookup or group creation leads to the fallback listing instead; no
\* failure ends the batch, which is answered with one outcome per row.
C3_FailureIsolatedToRow ==
    /\ \A k \in 1..Len(calls) :
          (/\ calls[k].row >= 1
           /\ ~calls[k].ok
           /\ \/ calls[k].op \in {"host.get", "host.create"}
              \/ calls[k].op = "hostgroup.get" /\ calls[k].arg = "") =>
              /\ calls[k].row <= Len(results)
              /\ results[calls[k].row].status = "error"
    /\ \A k \in 1..Len(calls) :
          (/\ calls[k].row >= 1
           /\ ~calls[k].ok
           /\ \/ calls[k].op = "hostgroup.create"
              \/ calls[k].op = "hostgroup.get" /\ calls[k].arg = DefaultGroupName) =>
              /\ k < Len(calls)
              /\ calls[k + 1].row = calls[k].row
              /\ calls[k + 1].op = "hostgroup.get" /\ calls[k + 1].arg = ""
    /\ Started => flash = "" /\ Len(results) = idx - 1
    /\ (Started /\ pc = "done") => Len(results) = Len(rows)

C3_Witness ==
    /\ Started /\ pc = "done" /\ Len(results) = 2
    /\ \E k \in CallsOf(1) : ~calls[k].ok /\ calls[k].op = "host.create"
    /\ results[1].status = "error"
    /\ results[2].status = "success"

\* C4: an import submitted with no template is turned away with no remote
\* call issued, no connection asked for and no outcome produced.
C4_NoTemplatesNoRemoteCall ==
    (request.endpoint = "/import" /\ request.templates = <<>>) =>
        /\ pc = "done"
        /\ response = "redirect"
        /\ calls = <<>>
        /\ conn = NotCalled
        /\ results = <<>>

C4_Witness ==
    /\ request.endpoint = "/import" /\ request.templates = <<>>
    /\ flash = TemplatesError
    /\ zabbix = None

\* C5: get_zabbix_connection returns a handle only if its login has succeeded.
C5_HandleOnlyAfterLogin ==
    (conn # NotCalled /\ conn # None) => conn \in loggedIn

\* C6 as claimed: once the group exists on the server, a row creates no group
\* and every resolution returns the identifier of that group.
C6_ResolutionReturnsTheGroup ==
    [][(pc = "rows" /\ ImportedGroups # <<>> /\ Len(calls') > Len(calls)) =>
          /\ CountOp(calls', "hostgroup.create") = CountOp(calls, "hostgroup.create")
          /\ groups' = groups
          /\ (CountOp(calls', "hostgroup.get") > CountOp(calls, "hostgroup.get")) =>
                resolved' = ImportedGroups[1].groupid]_vars

\* C6 as amended: once the group exists on the server, a row creates no
\* group, the server's groups stay as they are, and every resolution whose
\* lookup by name is answered returns the identifier of that group.
C6_ResolutionIdempotent ==
    [][(pc = "rows" /\ ImportedGroups # <<>> /\ Len(calls') > Len(calls)) =>
          /\ CountOp(calls', "hostgroup.create") = CountOp(calls, "hostgroup.create")
          /\ groups' = groups
          /\ \A k \in (Len(calls) + 1)..Len(calls') :
                (/\ calls'[k].op = "hostgroup.get"
                 /\ calls'[k].arg = DefaultGroupName
                 /\ calls'[k].ok) =>
                    resolved' = ImportedGroups[1].groupid]_vars

C6_Witness ==
    /\ ImportedGroups # <<>>
    /\ resolved = ImportedGroups[1].groupid
    /\ \E k, j \in 1..Len(calls) :
          /\ calls[k].op = "hostgroup.create" /\ calls[k].ok
          /\ calls[j].op = "hostgroup.get" /\ calls[j].ok
          /\ calls[j].arg = DefaultGroupName
          /\ calls[j].row > calls[k].row
          /\ calls[j].ret # <<>>

\* C7: when the fallback listing returns no group the row ends in an error
\* with no host.create issued, and no host.create carries a null groupid.
C7_NoCreateWithoutGroup ==
    /\ \A k \in 1..Len(calls) :
          calls[k].op = "host.create" => calls[k].arg.groups[1].groupid # None
    /\ \A k \in 1..Len(calls) :
          (/\ calls[k].op = "hostgroup.get" /\ calls[k].arg = ""
           /\ calls[k].ok /\ calls[k].ret = <<>>) =>
              /\ CallsOp(calls[k].row, "host.create") = {}
              /\ calls[k].row <= Len(results)
              /\ results[calls[k].row].status = "error"

\* C8: the details of an interface built for version 2 hold a community and
\* none of the version 3 fields; built for version 3 they hold every version 3
\* field and no community.  So do the details sent with each host.create.
DetailsMatchVersion(d) ==
    /\ d.version = "2" => "community" \in DOMAIN d /\ V3Fields \cap DOMAIN d = {}
    /\ d.version = "3" => V3Fields \subseteq DOMAIN d /\ "community" \notin DOMAIN d

C8_InterfaceByVersion ==
    /\ interface.type # 0 => DetailsMatchVersion(interface.details)
    /\ \A k \in 1..Len(calls) :
          calls[k].op = "host.create" =>
              DetailsMatchVersion(calls[k].arg.interfaces[1].details)

C8_Witness ==
    /\ interface.type = 2
    /\ interface.details.version = "3"
    /\ interface.details.securitylevel = 1
    /\ \E k \in 1..Len(calls) : calls[k].op = "host.create" /\ calls[k].ok

\* C9: once a login has succeeded, a request that asks for the connection
\* issues no login, constructs no handle and gets the logged-in handle.
C9_LoginOnceHandleReused ==
    [][(pc = "idle" /\ loggedIn # {} /\ conn' # NotCalled) =>
          /\ conn' \in loggedIn
          /\ loggedIn' = loggedIn
          /\ handles' = handles
          /\ zabbix' = zabbix
          /\ CountOp(calls', "user.login") = 0]_vars

C9_Witness ==
    /\ pc = "done"
    /\ conn # NotCalled /\ conn \in loggedIn
    /\ CountOp(calls, "user.login") = 0

\* C10: the calls of a batch are issued row after row in file order; a row
\* processed has exactly one host.get, at most one host.create and no call
\* issued twice; no call is issued for a row not yet reached.
C10_SequentialNoRetry ==
    /\ \A k, j \in 1..Len(calls) : k < j => calls[k].row <= calls[j].row
    /\ \A k \in 1..Len(calls) : calls[k].row <= Len(results)
    /\ \A i \in 1..Len(results) :
          /\ Cardinality(CallsOp(i, "host.get")) = 1
          /\ Cardinality(CallsOp(i, "host.create")) <= 1
          /\ Cardinality(CallsOp(i, "hostgroup.create")) <= 1
          /\ \A k, j \in CallsOp(i, "hostgroup.get") :
                calls[k].arg = calls[j].arg => k = j
          /\ \A k \in CallsOp(i, "host.get"), j \in CallsOf(i) : k <= j
          /\ \A k \in CallsOp(i, "host.create"), j \in CallsOf(i) : j <= k

C10_Witness ==
    /\ Started /\ pc = "done" /\ Len(results) = 2
    /\ Cardinality(CallsOp(1, "host.create")) = 1
    /\ Cardinality(CallsOp(2, "host.create")) = 1
    /\ \E k \in CallsOp(1, "host.create") : ~calls[k].ok
    /\ Cardinality(CallsOf(1)) = 4
====
